---- MODULE Spec2Model ----
(***************************************************************************)
(* A model of the snap-snap instant camera: the App component (the photo   *)
(* wall, the print slot and the selection), the Photo component (the       *)
(* drag / rotate / resize gestures) and the PolaroidCamera component (the  *)
(* shutter, the stylization pipeline and the deferred delivery).           *)
(*                                                                         *)
(* Every action is one browser event handled to completion: the React     *)
(* handler, the state updates it batches, and the effects of the render    *)
(* that follows.                                                           *)
(*                                                                         *)
(* Units.  Positions and pointers are CSS pixels.  Rotations are degrees.  *)
(* A scale s is held as the integer (150 * s)^2, i.e. the squared pointer  *)
(* distance that produces it, so that sqrt(dx^2 + dy^2) / 150 and its      *)
(* clamp to [0.3, 3] are exact: 22500 is scale 1, 2025 is scale 0.3 and    *)
(* 202500 is scale 3.  Math.random() is held in hundredths (0..99).        *)
(***************************************************************************)
EXTENDS Integers, Sequences, FiniteSets, TLC

(***************************************************************************)
(* Bounds of the model                                                     *)
(***************************************************************************)

\* accepted shutter presses stop when this many timers are pending
MaxTimers == 3

\* a drag that would carry an item further than this from the origin is not explored
MaxCoord == 200

\* the calls of savePhoto explored
MaxExports == 2

\* the ids uuidv4() may return; an id is never returned twice
Ids == {"a", "b"}

\* selectedPhotoId = null
NoId == "null"

\* the values of Math.random() tried, in hundredths
RandomSamples == {0, 50, 90}

\* the values of Date.now() tried
Times == {1000, 2000}

\* the tint swatches clicked, as indices into TINT_OPTIONS
TintChoices == {0, 1}

\* pointer positions <<clientX, clientY>> of the pointer-down on the print
PickupPoints == {<<120, 50>>}

\* pointer positions of a mouse-down on an item's body
DownPoints == {<<50, 50>>}

\* the pointer position of the window mouse-moves on the wall of two items: right of
\* the centre of an item at (0, 0), on the centre of an item at (150, 0)
WallMovePoints == {<<270, 145>>}

\* pointer positions of a window mouse-move
MovePoints == {<<200, 200>>, <<120, 145>>, <<270, 145>>, <<570, 145>>, <<720, 145>>}

\* every index into TINT_OPTIONS
AllTints == 0..4

\* pixels << R, G, B, A >> of the canvas before the grain, with channels at and near
\* both ends of 0..255, and the values of Math.random() tried for the grain, in
\* hundredths
SamplePixels == { << 0, 3, 128, 255 >>, << 250, 255, 7, 255 >> }
NoiseSamples == {0, 25, 75, 99}

\* e.clientX, e.clientY of the mousemove events tried while rotating: the eight
\* principal directions about (120, 145), the centre of a card at (0, 0)
RotatePoints == { << 120, -5 >>, << 270, -5 >>, << 270, 145 >>, << 270, 295 >>,
                  << 120, 295 >>, << -30, 295 >>, << -30, 145 >>, << -30, -5 >> }

(***************************************************************************)
(* Program constants                                                       *)
(***************************************************************************)

PASTEL_COLORS ==
  << "#ffffff", "#ffffff", "#fff0f5", "#f0f8ff", "#f5f5dc",
     "#faf0e6", "#e6e6fa", "#ffe4e1", "#f0fff0", "#fffacd" >>

\* the card is ~240px wide: the pickup anchors it 120 left of and 50 above the pointer
PickupOffsetX == 120
PickupOffsetY == 50

\* the layout box of a Photo
CardWidth == 240
CardHeight == 290

\* 150px from the centre is scale 1
ScaleRef == 150

\* setTimeout delays, in ms
CaptureDelay == 100
FlashDelay == 150
EjectDelay == 1500

Max(a, b) == IF a >= b THEN a ELSE b
Min(a, b) == IF a <= b THEN a ELSE b

\* scale 1 (App.tsx: scale: 1) and the clamp limits 0.3 and 3 in the unit (150 * s)^2
Scale1 == ScaleRef * ScaleRef
ScaleMin == ((3 * ScaleRef) \div 10) * ((3 * ScaleRef) \div 10)
ScaleMax == (3 * ScaleRef) * (3 * ScaleRef)

(***************************************************************************)
(* State                                                                   *)
(***************************************************************************)

VARIABLES
  photos,            \* App: the item store, in insertion order
  currentPrint,      \* App: the print slot, << >> for null, else << print >>
  isPrinting,        \* App: the ejecting flag
  selectedPhotoId,   \* App: the selected id, NoId for null
  usedIds,           \* the ids uuidv4() has returned
  interactionMode,   \* Photo: per mounted item 'none' | 'drag' | 'rotate' | 'resize'
  dragOffset,        \* Photo: per mounted item the offset captured at mouse-down
  stream,            \* PolaroidCamera: "pending" | "open" | "denied"
  flashActive,       \* PolaroidCamera: the flash pulse is showing
  isFolded,          \* PolaroidCamera: the camera is folded away
  selectedTintIndex, \* PolaroidCamera: index into TINT_OPTIONS, from 0
  isFlashEnabled,    \* PolaroidCamera: the flash setting
  timers,            \* the pending setTimeout callbacks, in the order they will fire
  exports            \* Photo.savePhoto: the Image and canvas of each call, in call order

wallVars == << photos, selectedPhotoId, usedIds, interactionMode, dragOffset >>
slotVars == << currentPrint, isPrinting >>
cameraVars == << stream, flashActive, isFolded, selectedTintIndex, isFlashEnabled >>
vars == << photos, currentPrint, isPrinting, selectedPhotoId, usedIds, interactionMode,
           dragOffset, stream, flashActive, isFolded, selectedTintIndex, isFlashEnabled,
           timers, exports >>

(***************************************************************************)
(* The item store (App)                                                    *)
(***************************************************************************)

\* the ids of the items of a store, and the item with a given id
IdsOf(ps) == { ps[i].id : i \in 1..Len(ps) }
PhotoOf(ps, id) == ps[CHOOSE i \in 1..Len(ps) : ps[i].id = id]

\* PASTEL_COLORS[Math.floor(Math.random() * PASTEL_COLORS.length)], r in hundredths
RandomColor(r) == PASTEL_COLORS[((r * Len(PASTEL_COLORS)) \div 100) + 1]

\* (Math.random() * 10) - 5, in degrees (whole for the samples, multiples of 0.1)
RandomRotation(r) == ((r * 10) \div 100) - 5

\* setPhotos(prev => prev.map(p => p.id === id ? { ...p, x, y } : p))
updatePhotoPosition(ps, id, x, y) ==
  [i \in 1..Len(ps) |-> IF ps[i].id = id THEN [ps[i] EXCEPT !.x = x, !.y = y] ELSE ps[i]]

\* updatePhotoTransform building the item anew around the transform, with no border
\* colour
updatePhotoTransform_Rebuilds(ps, id, rotation, scale) ==
  [i \in 1..Len(ps) |->
     IF ps[i].id = id
       THEN [ps[i] EXCEPT !.rotation = rotation, !.scale = scale, !.borderColor = "#ffffff"]
     ELSE ps[i]]

\* setPhotos(prev => prev.map(p => p.id === id ? { ...p, rotation, scale } : p))
updatePhotoTransform(ps, id, rotation, scale) ==
  [i \in 1..Len(ps) |->
     IF ps[i].id = id THEN [ps[i] EXCEPT !.rotation = rotation, !.scale = scale] ELSE ps[i]]

\* deletePhoto removing the newest item when the id is in the store
deletePhoto_DropsLast(ps, id) ==
  IF \E i \in 1..Len(ps) : ps[i].id = id THEN SubSeq(ps, 1, Len(ps) - 1) ELSE ps

\* setPhotos(prev => prev.filter(p => p.id !== id))
deletePhoto(ps, id) == SelectSeq(ps, LAMBDA p : p.id # id)

\* NewPhoto with the card centred on the pointer in both directions
NewPhoto_Centered(print, px, py, newId, r) ==
  [ id |-> newId,
    url |-> print.url,
    timestamp |-> print.timestamp,
    x |-> px - (CardWidth \div 2),
    y |-> py - (CardHeight \div 2),
    rotation |-> RandomRotation(r),
    scale |-> Scale1,
    isDeveloping |-> TRUE,
    borderColor |-> print.borderColor ]

\* the PhotoData handleDragFromCamera builds from the print in the slot
NewPhoto(print, px, py, newId, r) ==
  [ id |-> newId,
    url |-> print.url,
    timestamp |-> print.timestamp,
    x |-> px - PickupOffsetX,
    y |-> py - PickupOffsetY,
    rotation |-> RandomRotation(r),
    scale |-> Scale1,
    isDeveloping |-> TRUE,
    borderColor |-> print.borderColor ]

\* handleDragFromCamera without setCurrentPrint(null)
handleDragFromCamera_KeepsPrint(px, py, newId, r) ==
  IF currentPrint = << >>
    THEN [ photos |-> photos, selectedPhotoId |-> selectedPhotoId,
           currentPrint |-> currentPrint, isPrinting |-> isPrinting ]
    ELSE [ photos |-> Append(photos, [ id |-> newId,
                                       url |-> currentPrint[1].url,
                                       timestamp |-> currentPrint[1].timestamp,
                                       x |-> px - PickupOffsetX,
                                       y |-> py - PickupOffsetY,
                                       rotation |-> RandomRotation(r),
                                       scale |-> Scale1,
                                       isDeveloping |-> TRUE,
                                       borderColor |-> currentPrint[1].borderColor ]),
           selectedPhotoId |-> newId,
           currentPrint |-> currentPrint,
           isPrinting |-> FALSE ]

\* handleDragFromCamera without setIsPrinting(false)
handleDragFromCamera_LeavesFlag(px, py, newId, r) ==
  IF currentPrint = << >>
    THEN [ photos |-> photos, selectedPhotoId |-> selectedPhotoId,
           currentPrint |-> currentPrint, isPrinting |-> isPrinting ]
    ELSE [ photos |-> Append(photos, NewPhoto(currentPrint[1], px, py, newId, r)),
           selectedPhotoId |-> newId,
           currentPrint |-> << >>,
           isPrinting |-> isPrinting ]

\* handleDragFromCamera, as the App state it leaves: nothing changes when the slot is
\* empty; else the new item is appended and selected and the slot is cleared
handleDragFromCamera(px, py, newId, r) ==
  IF currentPrint = << >>
    THEN [ photos |-> photos, selectedPhotoId |-> selectedPhotoId,
           currentPrint |-> currentPrint, isPrinting |-> isPrinting ]
    ELSE [ photos |-> Append(photos, NewPhoto(currentPrint[1], px, py, newId, r)),
           selectedPhotoId |-> newId,
           currentPrint |-> << >>,
           isPrinting |-> FALSE ]

\* isSelected={selectedPhotoId === photo.id}
IsSelected(id) == selectedPhotoId = id

\* the root <div onMouseDown={() => setSelectedPhotoId(null)}>
BackgroundSelect == NoId

(***************************************************************************)
(* The Photo component: gestures                                           *)
(***************************************************************************)

\* the cards whose rect is the layout box: scale 1 and turned by a multiple of 90
\* degrees.  The element is laid out at (data.x, data.y), 240 x 290, and turned and
\* scaled about the centre of that box; the rect the browser reports for any other
\* card comes out of rounded floats
RectExact(p) == p.scale = Scale1 /\ p.rotation % 90 = 0

\* a number the code holds that is not carried here: a coordinate of a rounded rect,
\* and the angle and the distance taken from it
Rounded == "rounded"

\* rect.left + rect.width / 2 and rect.top + rect.height / 2 of
\* containerRef.current.getBoundingClientRect(): the centre of the layout box when the
\* rect is that box
CenterX(p) == IF RectExact(p) THEN p.x + (CardWidth \div 2) ELSE Rounded
CenterY(p) == IF RectExact(p) THEN p.y + (CardHeight \div 2) ELSE Rounded

\* the directions whose angle is a whole number of degrees
IsPrincipal(deltaY, deltaX) ==
  deltaX = 0 \/ deltaY = 0 \/ deltaX = deltaY \/ deltaX = -deltaY

\* Math.atan2(deltaY, deltaX) * (180 / Math.PI), on the principal directions
Atan2Deg(deltaY, deltaX) ==
  CASE deltaY = 0 /\ deltaX >= 0 -> 0
    [] deltaY = 0 /\ deltaX < 0 -> 180
    [] deltaX = 0 /\ deltaY > 0 -> 90
    [] deltaX = 0 /\ deltaY < 0 -> -90
    [] deltaX > 0 /\ deltaY = deltaX -> 45
    [] deltaX > 0 /\ deltaY = -deltaX -> -45
    [] deltaX < 0 /\ deltaY = -deltaX -> 135
    [] deltaX < 0 /\ deltaY = deltaX -> -135

\* AngleDeg without the quarter turn that makes 12 o'clock "up"
AngleDeg_NoQuarterTurn(p, px, py) == Atan2Deg(py - CenterY(p), px - CenterX(p))

\* angleDeg = Math.atan2(deltaY, deltaX) * (180 / Math.PI) + 90: 12 o'clock is "up"
AngleDeg(p, px, py) ==
  IF RectExact(p) THEN Atan2Deg(py - CenterY(p), px - CenterX(p)) + 90 ELSE Rounded

\* NewScale without Math.min(3, ...)
NewScale_NoUpperClamp(p, px, py) ==
  LET deltaX == px - CenterX(p)
      deltaY == py - CenterY(p)
  IN  Max(ScaleMin, deltaX * deltaX + deltaY * deltaY)

\* NewScale with the distance taken from the top-left corner, not the centre
NewScale_FromCorner(p, px, py) ==
  LET deltaX == px - p.x
      deltaY == py - p.y
  IN  Max(ScaleMin, Min(ScaleMax, deltaX * deltaX + deltaY * deltaY))

\* Math.max(0.3, Math.min(3, dist / 150)) with dist = sqrt(deltaX^2 + deltaY^2),
\* in the unit (150 * s)^2
NewScale(p, px, py) ==
  IF RectExact(p)
    THEN LET deltaX == px - CenterX(p)
             deltaY == py - CenterY(p)
         IN  Max(ScaleMin, Min(ScaleMax, deltaX * deltaX + deltaY * deltaY))
    ELSE Rounded

\* PhotoMouseMove with the drag placing the item's corner at the pointer
PhotoMouseMove_IgnoresOffset(ps, data, mode, offset, px, py) ==
  IF mode = "drag"
    THEN updatePhotoPosition(ps, data.id, px, py)
  ELSE IF mode = "rotate"
    THEN updatePhotoTransform(ps, data.id, AngleDeg(data, px, py), data.scale)
  ELSE IF mode = "resize"
    THEN updatePhotoTransform(ps, data.id, data.rotation, NewScale(data, px, py))
  ELSE ps

\* PhotoMouseMove with the scale written together with the rotation of an upright item
PhotoMouseMove_ResizeResetsRotation(ps, data, mode, offset, px, py) ==
  IF mode = "drag"
    THEN updatePhotoPosition(ps, data.id, px - offset[1], py - offset[2])
  ELSE IF mode = "rotate"
    THEN updatePhotoTransform(ps, data.id, AngleDeg(data, px, py), data.scale)
  ELSE IF mode = "resize"
    THEN updatePhotoTransform(ps, data.id, 0, NewScale(data, px, py))
  ELSE ps

\* PhotoMouseMove with the listener left registered in mode 'none', acting as a drag
PhotoMouseMove_AlwaysListening(ps, data, mode, offset, px, py) ==
  IF mode \in { "drag", "none" }
    THEN updatePhotoPosition(ps, data.id, px - offset[1], py - offset[2])
  ELSE IF mode = "rotate"
    THEN updatePhotoTransform(ps, data.id, AngleDeg(data, px, py), data.scale)
  ELSE updatePhotoTransform(ps, data.id, data.rotation, NewScale(data, px, py))

\* the window mousemove listener of the Photo showing `data`, applied to the store ps
PhotoMouseMove(ps, data, mode, offset, px, py) ==
  IF mode = "drag"
    THEN updatePhotoPosition(ps, data.id, px - offset[1], py - offset[2])
  ELSE IF mode = "rotate"
    THEN updatePhotoTransform(ps, data.id, AngleDeg(data, px, py), data.scale)
  ELSE IF mode = "resize"
    THEN updatePhotoTransform(ps, data.id, data.rotation, NewScale(data, px, py))
  ELSE ps

\* the listeners of the first k items (those of items in mode 'none' are not
\* registered), each with the props of the last render
RECURSIVE ListenersMove(_, _, _)
ListenersMove(k, px, py) ==
  IF k = 0 THEN photos
  ELSE PhotoMouseMove(ListenersMove(k - 1, px, py), photos[k],
                      interactionMode[photos[k].id], dragOffset[photos[k].id], px, py)

\* handleMouseDown without onSelect()
handleMouseDown_NoSelect(id, px, py) ==
  /\ id \in IdsOf(photos)
  /\ interactionMode' = [interactionMode EXCEPT ![id] = "drag"]
  /\ dragOffset' = [dragOffset EXCEPT
                      ![id] = << px - PhotoOf(photos, id).x, py - PhotoOf(photos, id).y >>]
  /\ UNCHANGED << photos, selectedPhotoId, usedIds, slotVars, cameraVars, timers >>
  /\ UNCHANGED exports

\* Photo.handleMouseDown: select this item, start a drag, capture the offset
handleMouseDown(id, px, py) ==
  /\ id \in IdsOf(photos)
  /\ selectedPhotoId' = id
  /\ interactionMode' = [interactionMode EXCEPT ![id] = "drag"]
  /\ dragOffset' = [dragOffset EXCEPT
                      ![id] = << px - PhotoOf(photos, id).x, py - PhotoOf(photos, id).y >>]
  /\ UNCHANGED << photos, usedIds, slotVars, cameraVars, timers >>
  /\ UNCHANGED exports

\* handleRotateStart with the handle rendered for every item
handleRotateStart_AnyItem(id) ==
  /\ id \in IdsOf(photos)
  /\ interactionMode' = [interactionMode EXCEPT ![id] = "rotate"]
  /\ UNCHANGED << photos, selectedPhotoId, usedIds, dragOffset, slotVars, cameraVars, timers >>
  /\ UNCHANGED exports

\* Photo.handleRotateStart: the handle is rendered for the selected item only
handleRotateStart(id) ==
  /\ id \in IdsOf(photos)
  /\ selectedPhotoId = id
  /\ interactionMode' = [interactionMode EXCEPT ![id] = "rotate"]
  /\ UNCHANGED << photos, selectedPhotoId, usedIds, dragOffset, slotVars, cameraVars, timers >>
  /\ UNCHANGED exports

\* handleResizeStart without e.stopPropagation(): the mousedown reaches the root div
handleResizeStart_Propagates(id) ==
  /\ id \in IdsOf(photos)
  /\ selectedPhotoId = id
  /\ interactionMode' = [interactionMode EXCEPT ![id] = "resize"]
  /\ selectedPhotoId' = BackgroundSelect
  /\ UNCHANGED << photos, usedIds, dragOffset, slotVars, cameraVars, timers >>
  /\ UNCHANGED exports

\* Photo.handleResizeStart: the handle is rendered for the selected item only
handleResizeStart(id) ==
  /\ id \in IdsOf(photos)
  /\ selectedPhotoId = id
  /\ interactionMode' = [interactionMode EXCEPT ![id] = "resize"]
  /\ UNCHANGED << photos, selectedPhotoId, usedIds, dragOffset, slotVars, cameraVars, timers >>
  /\ UNCHANGED exports

\* the pointer positions explored: no dragged item leaves the explored area, and every
\* item that is rotated or resized has an exact rect, the pointer being on one of the
\* eight principal directions from the centre of a rotated item, or on that centre.
\* A move about a rounded rect gives numbers that depend on the rounding, which is
\* not a function of the program's state; no such move is explored
MoveExplored(px, py) ==
  \A i \in 1..Len(photos) :
    LET p == photos[i]
        off == dragOffset[p.id]
    IN  /\ interactionMode[p.id] = "rotate" =>
             /\ RectExact(p)
             /\ IsPrincipal(py - CenterY(p), px - CenterX(p))
        /\ interactionMode[p.id] = "resize" => RectExact(p)
        /\ interactionMode[p.id] = "drag" =>
             /\ px - off[1] \in (0 - MaxCoord)..MaxCoord
             /\ py - off[2] \in (0 - MaxCoord)..MaxCoord

\* a window mousemove: every registered listener runs
handleMouseMove(px, py) ==
  /\ MoveExplored(px, py)
  /\ photos' = ListenersMove(Len(photos), px, py)
  /\ UNCHANGED << selectedPhotoId, usedIds, interactionMode, dragOffset, slotVars,
                  cameraVars, timers >>
  /\ UNCHANGED exports

\* handleMouseUp with the mouseup listener on the selected item, not on the window
handleMouseUp_SelectedOnly ==
  /\ interactionMode' = [id \in Ids |->
                           IF id = selectedPhotoId THEN "none" ELSE interactionMode[id]]
  /\ UNCHANGED << photos, selectedPhotoId, usedIds, dragOffset, slotVars, cameraVars, timers >>
  /\ UNCHANGED exports

\* a window mouseup: every registered listener sets its item's mode to 'none'
handleMouseUp ==
  /\ interactionMode' = [id \in Ids |-> "none"]
  /\ UNCHANGED << photos, selectedPhotoId, usedIds, dragOffset, slotVars, cameraVars, timers >>
  /\ UNCHANGED exports

\* the click on the delete button, rendered for the selected item only: the item
\* leaves the store and its Photo unmounts, which discards its state and listeners
DeleteClick(id) ==
  /\ id \in IdsOf(photos)
  /\ selectedPhotoId = id
  /\ photos' = deletePhoto(photos, id)
  /\ interactionMode' = [interactionMode EXCEPT ![id] = "none"]
  /\ dragOffset' = [dragOffset EXCEPT ![id] = << 0, 0 >>]
  /\ UNCHANGED << selectedPhotoId, usedIds, slotVars, cameraVars, timers >>
  /\ UNCHANGED exports

\* a mousedown that reaches the root div: on the background or on the camera
BackgroundMouseDown ==
  /\ selectedPhotoId' = BackgroundSelect
  /\ UNCHANGED << photos, usedIds, interactionMode, dragOffset, slotVars, cameraVars, timers >>
  /\ UNCHANGED exports

\* PrintPointerDown with an id that an earlier item may have had
PrintPointerDown_ReusesId(px, py, newId, r) ==
  /\ currentPrint # << >>
  /\ newId \notin IdsOf(photos)
  /\ LET s == handleDragFromCamera(px, py, newId, r)
     IN  /\ photos' = s.photos
         /\ currentPrint' = s.currentPrint
         /\ isPrinting' = s.isPrinting
         /\ selectedPhotoId' = BackgroundSelect
  /\ usedIds' = usedIds \cup {newId}
  /\ UNCHANGED << interactionMode, dragOffset, cameraVars, timers >>
  /\ UNCHANGED exports

\* the pointerdown of a mouse on the print in the slot: handleDragFromCamera runs and
\* React renders, which removes the print from the document; the mousedown that follows
\* the pointerdown is then dispatched at the print's nearest ancestor still in the
\* document and bubbles to the root div, whose onMouseDown clears the selection
PrintPointerDown(px, py, newId, r) ==
  /\ currentPrint # << >>
  /\ newId \notin usedIds
  /\ LET s == handleDragFromCamera(px, py, newId, r)
     IN  /\ photos' = s.photos
         /\ currentPrint' = s.currentPrint
         /\ isPrinting' = s.isPrinting
         /\ selectedPhotoId' = BackgroundSelect
  /\ usedIds' = usedIds \cup {newId}
  /\ UNCHANGED << interactionMode, dragOffset, cameraVars, timers >>
  /\ UNCHANGED exports

\* the pointerdown of a touch on the print in the slot: handleDragFromCamera runs and
\* no mousedown follows it, so the root div's onMouseDown does not run and the new item
\* stays selected (the mouse events of a finger lifted in place come later, at the new
\* item: handleMouseDown, handleMouseUp)
PrintTouchStart(px, py, newId, r) ==
  /\ currentPrint # << >>
  /\ newId \notin usedIds
  /\ LET s == handleDragFromCamera(px, py, newId, r)
     IN  /\ photos' = s.photos
         /\ currentPrint' = s.currentPrint
         /\ isPrinting' = s.isPrinting
         /\ selectedPhotoId' = s.selectedPhotoId
  /\ usedIds' = usedIds \cup {newId}
  /\ UNCHANGED << interactionMode, dragOffset, cameraVars, timers >>
  /\ UNCHANGED exports

\* the pointerdown on the print in the slot, of either kind of pointer
PrintPickup(px, py, newId, r) ==
  \/ PrintPointerDown(px, py, newId, r)
  \/ PrintTouchStart(px, py, newId, r)

\* handleDragFromCamera called while the slot is empty: no print is rendered, so no
\* event is dispatched; the handler alone runs and returns at its first line
PickupOnEmptySlot(px, py, newId, r) ==
  /\ currentPrint = << >>
  /\ LET s == handleDragFromCamera(px, py, newId, r)
     IN  /\ photos' = s.photos
         /\ currentPrint' = s.currentPrint
         /\ isPrinting' = s.isPrinting
         /\ selectedPhotoId' = s.selectedPhotoId
  /\ UNCHANGED << usedIds, interactionMode, dragOffset, cameraVars, timers >>
  /\ UNCHANGED exports

(***************************************************************************)
(* Timers: setTimeout                                                      *)
(***************************************************************************)

Delay(kind) ==
  CASE kind = "capture" -> CaptureDelay
    [] kind = "flash" -> FlashDelay
    [] kind = "eject" -> EjectDelay

\* a timer set now fires after every pending timer whose delay is not longer than
\* its own (those were set no later and are due no later); where it fires among the
\* pending timers of a longer delay depends on how long ago those were set
CanInsertAt(ts, kind, pos) ==
  /\ pos \in 1..(Len(ts) + 1)
  /\ \A i \in 1..Len(ts) : Delay(ts[i].kind) <= Delay(kind) => i < pos

InsertAt(ts, t, pos) == SubSeq(ts, 1, pos - 1) \o << t >> \o SubSeq(ts, pos, Len(ts))

(***************************************************************************)
(* The PolaroidCamera component                                            *)
(***************************************************************************)

TINT_OPTIONS == << "neutral", "blue", "red", "emerald", "amber" >>

\* currentTint.id
TintId(idx) == TINT_OPTIONS[idx + 1]

\* the frames the video element may hold: <<videoWidth, videoHeight, picture>>, the
\* picture numbered to tell one frame of the camera from another; 0 x 0 until the
\* stream has delivered a frame
NoFrame == << 0, 0, 0 >>
OneFrame == { << 1280, 720, 1 >> }
LiveFrames == { << 1280, 720, 1 >>, << 1280, 720, 2 >> }
Frames == { NoFrame } \cup LiveFrames
FramesOf(st) == IF st = "open" THEN Frames ELSE { NoFrame }

\* currentTint.overlay, "null" for null
TINT_OVERLAYS ==
  << "null", "rgba(210, 240, 255, 0.18)", "rgba(255, 40, 0, 0.08)",
     "rgba(0, 255, 100, 0.06)", "rgba(255, 180, 0, 0.1)" >>
TintOverlay(idx) == TINT_OVERLAYS[idx + 1]

\* FilterString with a warmer grade for the amber profile
FilterString_PerProfile(idx, flashEnabled) ==
  IF TintId(idx) = "blue"
    THEN IF flashEnabled
           THEN "hue-rotate(-36deg) saturate(0.32) brightness(1.48) contrast(1.58)"
           ELSE "hue-rotate(-20deg) saturate(0.50) brightness(1.22) contrast(1.12)"
  ELSE IF TintId(idx) = "amber"
    THEN "contrast(0.9) brightness(1.1) saturate(0.85) sepia(0.45)"
  ELSE IF flashEnabled
    THEN "contrast(1.4) brightness(1.3) saturate(1.1) sepia(0.05)"
    ELSE "contrast(0.9) brightness(1.1) saturate(0.85) sepia(0.15) hue-rotate(-5deg)"

\* filterString: the base colour grade
FilterString(idx, flashEnabled) ==
  IF TintId(idx) = "blue"
    THEN IF flashEnabled
           THEN "hue-rotate(-36deg) saturate(0.32) brightness(1.48) contrast(1.58)"
           ELSE "hue-rotate(-20deg) saturate(0.50) brightness(1.22) contrast(1.12)"
  ELSE IF flashEnabled
    THEN "contrast(1.4) brightness(1.3) saturate(1.1) sepia(0.05)"
    ELSE "contrast(0.9) brightness(1.1) saturate(0.85) sepia(0.15) hue-rotate(-5deg)"

\* Stages with the bloom drawn whatever the flash setting
Stages_BloomAlways(idx, flashEnabled, pixelReadOk) ==
  << "crop", "mirror", "grade" >>
  \o (IF flashEnabled /\ TintId(idx) = "blue" THEN << "flashCast" >> ELSE << >>)
  \o (IF TintId(idx) = "blue" THEN << "tintScreen", "tintScreen" >>
      ELSE IF TintOverlay(idx) # "null" THEN << "tintOverlay" >>
      ELSE << >>)
  \o << "bloom" >>
  \o << "vignette" >>
  \o (IF TintId(idx) = "blue" THEN << "blueCast" >> ELSE << >>)
  \o (IF pixelReadOk THEN << "grain" >> ELSE << >>)
  \o << "encode" >>

\* the canvas operations of handleShutterPress in the order it runs them: one drawImage
\* of the square source rectangle under the mirror transform and the grade filter, the
\* multiply fill of the flash cast, the two screen fills of the blue tint or the one
\* overlay fill of another tint, the blurred screen redraw of the bloom, the vignette,
\* the multiply fill of the blue cast, the grain (skipped when the pixel read throws)
\* and toDataURL
Stages(idx, flashEnabled, pixelReadOk) ==
  << "crop", "mirror", "grade" >>
  \o (IF flashEnabled /\ TintId(idx) = "blue" THEN << "flashCast" >> ELSE << >>)
  \o (IF TintId(idx) = "blue" THEN << "tintScreen", "tintScreen" >>
      ELSE IF TintOverlay(idx) # "null" THEN << "tintOverlay" >>
      ELSE << >>)
  \o (IF ~flashEnabled THEN << "bloom" >> ELSE << >>)
  \o << "vignette" >>
  \o (IF TintId(idx) = "blue" THEN << "blueCast" >> ELSE << >>)
  \o (IF pixelReadOk THEN << "grain" >> ELSE << >>)
  \o << "encode" >>

\* const grain = currentTint.id === "blue" ? 14 : 22
GrainOf(idx) == IF TintId(idx) = "blue" THEN 14 ELSE 22

\* the store into a Uint8Array: rounded, then modulo 256
ToUint8Clamp_Wraps(hundredths) == ((hundredths + 50) \div 100) % 256

\* the store of a number, given in hundredths, into a Uint8ClampedArray: clamped to
\* 0..255, then rounded to the nearest integer, a tie to the even one
ToUint8Clamp(hundredths) ==
  IF hundredths <= 0 THEN 0
  ELSE IF hundredths >= 25500 THEN 255
  ELSE LET f == hundredths \div 100
           rest == hundredths % 100
       IN  IF rest > 50 THEN f + 1
           ELSE IF rest < 50 THEN f
           ELSE IF f % 2 = 0 THEN f
           ELSE f + 1

\* (Math.random() - 0.5) * grain in hundredths, for Math.random() = r / 100
GrainNoise(r, idx) == (r - 50) * GrainOf(idx)

\* one turn of the grain loop on the pixel << R, G, B, A >>: n is drawn once and added
\* to data[i], data[i + 1] and data[i + 2]
Grain(pixel, r, idx) ==
  LET n == GrainNoise(r, idx)
  IN  << ToUint8Clamp(pixel[1] * 100 + n),
         ToUint8Clamp(pixel[2] * 100 + n),
         ToUint8Clamp(pixel[3] * 100 + n),
         pixel[4] >>

\* a pixel of mid grey, and Math.random() = 0.5 in hundredths (n = 0)
MidGrey == << 128, 128, 128, 255 >>
NoNoise == 50

\* canvas.toDataURL() of a canvas without pixels: "data:,"
EmptyDataUrl ==
  [ size |-> 0, tint |-> "", flash |-> FALSE, grain |-> FALSE, stages |-> << >>,
    filter |-> "", pixel |-> << >>, shot |-> 0 ]

\* the data URL the pipeline of handleShutterPress produces: the square crop of side
\* min(videoWidth, videoHeight) of the camera's frame, graded for the tint and the
\* flash setting, with grain when the pixel read succeeds; getImageData throws on an
\* empty rectangle, too, and the catch only logs; `sample` is one pixel of the canvas
\* as the grain stage finds it and r the value of Math.random() for that pixel, in
\* hundredths.  ctx.drawImage(video, ...) draws the frame the video shows at the
\* press: two presses on one frame (a camera slower than the presses) with the same
\* settings and the same noise give one string, two frames give two strings, and the
\* canvas without pixels always gives "data:,"
StylizeOn(frame, sample, r, idx, flashEnabled, pixelReadOk) ==
  LET size == Min(frame[1], frame[2])
  IN  IF size = 0 THEN EmptyDataUrl
      ELSE [ size |-> size, tint |-> TintId(idx), flash |-> flashEnabled,
             grain |-> pixelReadOk,
             stages |-> Stages(idx, flashEnabled, pixelReadOk),
             filter |-> FilterString(idx, flashEnabled),
             pixel |-> IF pixelReadOk THEN Grain(sample, r, idx) ELSE sample,
             shot |-> frame[3] ]

\* the pipeline on a frame that is mid grey before the grain, with n = 0
Stylize(frame, idx, flashEnabled, pixelReadOk) ==
  StylizeOn(frame, MidGrey, NoNoise, idx, flashEnabled, pixelReadOk)

FlashTimer == [ kind |-> "flash", url |-> EmptyDataUrl ]
EjectTimer == [ kind |-> "eject", url |-> EmptyDataUrl ]
CaptureTimer(dataUrl) == [ kind |-> "capture", url |-> dataUrl ]

\* currentPrint?.url || null, with EmptyDataUrl.tint = "" never the tint of an image
NoUrl ==
  [ size |-> 0, tint |-> "null", flash |-> FALSE, grain |-> FALSE, stages |-> << >>,
    filter |-> "", pixel |-> << >>, shot |-> 0 ]
PrintUrl(print) == IF print = << >> THEN NoUrl ELSE print[1].url

\* the effect with the dependencies [currentPrintUrl] alone
AutoUnfold_UrlOnly(folded, wasPrinting, oldPrint, nowPrinting, newPrint) ==
  IF /\ PrintUrl(oldPrint) # PrintUrl(newPrint)
     /\ (nowPrinting \/ newPrint # << >>)
    THEN FALSE
    ELSE folded

\* useEffect(() => { if (isPrinting || currentPrintUrl) setIsFolded(false) },
\*           [isPrinting, currentPrintUrl]): the value of isFolded after the render
\* that takes the slot from (wasPrinting, oldPrint) to (nowPrinting, newPrint)
AutoUnfold(folded, wasPrinting, oldPrint, nowPrinting, newPrint) ==
  IF /\ (wasPrinting # nowPrinting \/ PrintUrl(oldPrint) # PrintUrl(newPrint))
     /\ (nowPrinting \/ newPrint # << >>)
    THEN FALSE
    ELSE folded

\* getUserMedia resolves: setStream(mediaStream)
StartCameraResolved ==
  /\ stream = "pending"
  /\ stream' = "open"
  /\ UNCHANGED << wallVars, slotVars, flashActive, isFolded, selectedTintIndex,
                  isFlashEnabled, timers >>
  /\ UNCHANGED exports

\* getUserMedia rejects: setPermissionError(...)
StartCameraDenied ==
  /\ stream = "pending"
  /\ stream' = "denied"
  /\ UNCHANGED << wallVars, slotVars, flashActive, isFolded, selectedTintIndex,
                  isFlashEnabled, timers >>
  /\ UNCHANGED exports

\* the fold toggle: setIsFolded(!isFolded)
FoldToggle ==
  /\ isFolded' = ~isFolded
  /\ UNCHANGED << wallVars, slotVars, stream, flashActive, selectedTintIndex,
                  isFlashEnabled, timers >>
  /\ UNCHANGED exports

\* a click on the top controls: isFolded && setIsFolded(false)
TopBarClick ==
  /\ isFolded' = FALSE
  /\ UNCHANGED << wallVars, slotVars, stream, flashActive, selectedTintIndex,
                  isFlashEnabled, timers >>
  /\ UNCHANGED exports

\* a click on a tint swatch: setSelectedTintIndex(idx)
SelectTint(idx) ==
  /\ selectedTintIndex' = idx
  /\ UNCHANGED << wallVars, slotVars, stream, flashActive, isFolded, isFlashEnabled, timers >>
  /\ UNCHANGED exports

\* a click on the flash unit, which takes no pointer events while folded
ToggleFlash ==
  /\ ~isFolded
  /\ isFlashEnabled' = ~isFlashEnabled
  /\ UNCHANGED << wallVars, slotVars, stream, flashActive, isFolded, selectedTintIndex,
                  timers >>
  /\ UNCHANGED exports

\* the timers after an accepted press: the flash timer (150 ms), if the flash is
\* enabled, at posFlash, then the capture timer (100 ms) at posCapture
PressTimers(dataUrl, posFlash, posCapture) ==
  LET ts == IF isFlashEnabled THEN InsertAt(timers, FlashTimer, posFlash) ELSE timers
  IN  InsertAt(ts, CaptureTimer(dataUrl), posCapture)

\* the flash timer is set before the canvas work and the capture timer after it, so
\* either of the two fires first, as the canvas work takes less or more than 50 ms
PressPositions(posFlash, posCapture) ==
  IF isFlashEnabled
    THEN /\ CanInsertAt(timers, "flash", posFlash)
         /\ CanInsertAt(InsertAt(timers, FlashTimer, posFlash), "capture", posCapture)
    ELSE /\ posFlash = 1
         /\ CanInsertAt(timers, "capture", posCapture)

\* handleShutterPress: rejected while printing or folded; else the flash pulse starts
\* if the flash is enabled, the frame is stylized and its delivery is deferred by 100 ms
handleShutterPressOn(frame, sample, r, pixelReadOk, posFlash, posCapture) ==
  IF isPrinting \/ isFolded
    THEN /\ posFlash = 1
         /\ posCapture = 1
         /\ UNCHANGED << slotVars, cameraVars, timers >>
    ELSE /\ PressPositions(posFlash, posCapture)
         /\ flashActive' = (isFlashEnabled \/ flashActive)
         /\ timers' = PressTimers(StylizeOn(frame, sample, r, selectedTintIndex,
                                            isFlashEnabled, pixelReadOk),
                                  posFlash, posCapture)
         /\ UNCHANGED << slotVars, stream, isFolded, selectedTintIndex, isFlashEnabled >>

\* handleShutterPress on a frame that is mid grey before the grain, with n = 0
handleShutterPress(frame, pixelReadOk, posFlash, posCapture) ==
  handleShutterPressOn(frame, MidGrey, NoNoise, pixelReadOk, posFlash, posCapture)

\* the click event on the shutter, from a press of the focused button on the keyboard
\* or after the mouseup of a press with the pointer; only MaxTimers pending timers are
\* explored
ShutterClickOn(frame, sample, r, pixelReadOk, posFlash, posCapture) ==
  /\ frame \in FramesOf(stream)
  /\ (isPrinting \/ isFolded \/ Len(timers) + 2 <= MaxTimers)
  /\ handleShutterPressOn(frame, sample, r, pixelReadOk, posFlash, posCapture)
  /\ UNCHANGED wallVars
  /\ UNCHANGED exports

\* the click on a frame that is mid grey before the grain, with n = 0
ShutterClick(frame, pixelReadOk, posFlash, posCapture) ==
  ShutterClickOn(frame, MidGrey, NoNoise, pixelReadOk, posFlash, posCapture)

\* the mousedown on the enabled shutter (a disabled button takes no mouse events): it
\* has no handler of its own and bubbles to the root div, whose onMouseDown clears the
\* selection; handleShutterPress stops the click only.  The release is the window
\* mouseup (handleMouseUp) and the click that follows it is ShutterClick
ShutterMouseDown ==
  /\ ~(isPrinting \/ isFolded)
  /\ selectedPhotoId' = BackgroundSelect
  /\ UNCHANGED << photos, usedIds, interactionMode, dragOffset, slotVars, cameraVars, timers >>
  /\ UNCHANGED exports

\* the 150 ms timer of the flash pulse: setFlashActive(false)
FlashTimeout ==
  /\ timers # << >>
  /\ Head(timers).kind = "flash"
  /\ flashActive' = FALSE
  /\ timers' = Tail(timers)
  /\ UNCHANGED << wallVars, slotVars, stream, isFolded, selectedTintIndex, isFlashEnabled >>
  /\ UNCHANGED exports

\* handleCapture keeping the print that waits in the slot, dropping the new one
handleCapture_KeepsPending(imageUrl, r, now) ==
  /\ isPrinting' = TRUE
  /\ currentPrint' = IF currentPrint # << >> THEN currentPrint
                     ELSE << [ url |-> imageUrl, timestamp |-> now,
                               borderColor |-> RandomColor(r) ] >>
  /\ timers' = Append(Tail(timers), EjectTimer)
  /\ isFolded' = AutoUnfold(isFolded, isPrinting, currentPrint, isPrinting', currentPrint')
  /\ UNCHANGED << wallVars, stream, flashActive, selectedTintIndex, isFlashEnabled >>

\* handleCapture without the setTimeout that clears the ejecting flag
handleCapture_NoEjectTimer(imageUrl, r, now) ==
  /\ isPrinting' = TRUE
  /\ currentPrint' = << [ url |-> imageUrl, timestamp |-> now,
                          borderColor |-> RandomColor(r) ] >>
  /\ timers' = Tail(timers)
  /\ isFolded' = AutoUnfold(isFolded, isPrinting, currentPrint, isPrinting', currentPrint')
  /\ UNCHANGED << wallVars, stream, flashActive, selectedTintIndex, isFlashEnabled >>

\* App.handleCapture: the print is written to the slot, the ejecting flag is set and
\* the 1.5 s timer starts; the camera's effect unfolds it
handleCapture(imageUrl, r, now) ==
  /\ isPrinting' = TRUE
  /\ currentPrint' = << [ url |-> imageUrl, timestamp |-> now,
                          borderColor |-> RandomColor(r) ] >>
  /\ timers' = Append(Tail(timers), EjectTimer)
  /\ isFolded' = AutoUnfold(isFolded, isPrinting, currentPrint, isPrinting', currentPrint')
  /\ UNCHANGED << wallVars, stream, flashActive, selectedTintIndex, isFlashEnabled >>

\* the 100 ms timer of handleShutterPress: onCapture(dataUrl)
CaptureTimeout(r, now) ==
  /\ timers # << >>
  /\ Head(timers).kind = "capture"
  /\ handleCapture(Head(timers).url, r, now)
  /\ UNCHANGED exports

\* EjectTimeout discarding the print along with the ejecting flag
EjectTimeout_DiscardsPrint ==
  /\ timers # << >>
  /\ Head(timers).kind = "eject"
  /\ isPrinting' = FALSE
  /\ currentPrint' = << >>
  /\ timers' = Tail(timers)
  /\ isFolded' = AutoUnfold(isFolded, isPrinting, currentPrint, FALSE, << >>)
  /\ UNCHANGED << wallVars, stream, flashActive, selectedTintIndex, isFlashEnabled >>
  /\ UNCHANGED exports

\* the 1.5 s timer of handleCapture: setIsPrinting(false)
EjectTimeout ==
  /\ timers # << >>
  /\ Head(timers).kind = "eject"
  /\ isPrinting' = FALSE
  /\ timers' = Tail(timers)
  /\ isFolded' = AutoUnfold(isFolded, isPrinting, currentPrint, FALSE, currentPrint)
  /\ UNCHANGED << wallVars, currentPrint, stream, flashActive, selectedTintIndex,
                  isFlashEnabled >>
  /\ UNCHANGED exports

(***************************************************************************)
(* The Photo component: export (savePhoto)                                 *)
(***************************************************************************)

\* Decodable with every image decoding
Decodable_Always(url) == TRUE

\* whether the browser decodes the data URL of an item: the JPEG of a canvas with
\* pixels decodes, "data:," (the URL of a canvas without pixels) does not
Decodable(url) == url.size > 0

\* FileName with one name for every export
FileName_Fixed(id) == << "retrosnap-", "photo", ".jpg" >>

\* link.download
FileName(id) == << "retrosnap-", id, ".jpg" >>

\* the canvas and the Image of one call of savePhoto on the item `data`: the frame is
\* filled with data.borderColor and img.src = data.url starts the decode
ExportOf(data) ==
  [ name |-> FileName(data.id),
    url |-> data.url,
    timestamp |-> data.timestamp,
    borderColor |-> data.borderColor,
    state |-> "loading" ]

\* the click on the save button, rendered for the selected item only
savePhoto(id) ==
  /\ id \in IdsOf(photos)
  /\ selectedPhotoId = id
  /\ Len(exports) < MaxExports
  /\ exports' = Append(exports, ExportOf(PhotoOf(photos, id)))
  /\ UNCHANGED << wallVars, slotVars, cameraVars, timers >>

\* img.onload: the photo and the caption are drawn and link.click() saves the file
ImageOnLoad(k) ==
  /\ k \in 1..Len(exports)
  /\ exports[k].state = "loading"
  /\ Decodable(exports[k].url)
  /\ exports' = [exports EXCEPT ![k].state = "saved"]
  /\ UNCHANGED << wallVars, slotVars, cameraVars, timers >>

\* the decode fails: the Image fires error, for which savePhoto sets no handler
ImageOnError(k) ==
  /\ k \in 1..Len(exports)
  /\ exports[k].state = "loading"
  /\ ~Decodable(exports[k].url)
  /\ exports' = [exports EXCEPT ![k].state = "broken"]
  /\ UNCHANGED << wallVars, slotVars, cameraVars, timers >>

\* the files saved so far
Downloads == SelectSeq(exports, LAMBDA x : x.state = "saved")

(***************************************************************************)
(* The specification                                                       *)
(***************************************************************************)

Init ==
  /\ photos = << >>
  /\ currentPrint = << >>
  /\ isPrinting = FALSE
  /\ selectedPhotoId = NoId
  /\ usedIds = {}
  /\ interactionMode = [id \in Ids |-> "none"]
  /\ dragOffset = [id \in Ids |-> << 0, 0 >>]
  /\ stream = "pending"
  /\ flashActive = FALSE
  /\ isFolded = FALSE
  /\ selectedTintIndex = 0
  /\ isFlashEnabled = FALSE
  /\ timers = << >>
  /\ exports = << >>

\* the events of the Photo components and of the background, with the pointer
\* positions tried for a mouse-down (downs) and for a mouse-move (moves)
WallNext(downs, moves) ==
  \/ \E id \in Ids, pt \in downs : handleMouseDown(id, pt[1], pt[2])
  \/ \E id \in Ids : handleRotateStart(id)
  \/ \E id \in Ids : handleResizeStart(id)
  \/ \E pt \in moves : handleMouseMove(pt[1], pt[2])
  \/ handleMouseUp
  \/ \E id \in Ids : DeleteClick(id)
  \/ BackgroundMouseDown

\* the pickup, with the pointer positions, the ids and the random values tried
PickupNext(points, ids, randoms) ==
  \/ \E pt \in points, newId \in ids, r \in randoms :
       PrintPointerDown(pt[1], pt[2], newId, r)
  \/ \E pt \in points, newId \in ids, r \in randoms :
       PrintTouchStart(pt[1], pt[2], newId, r)
  \/ \E pt \in points, newId \in ids, r \in randoms :
       PickupOnEmptySlot(pt[1], pt[2], newId, r)

\* the camera's controls, with the tint swatches tried
ControlsNext(tints) ==
  \/ StartCameraResolved
  \/ StartCameraDenied
  \/ FoldToggle
  \/ TopBarClick
  \/ \E idx \in tints : SelectTint(idx)
  \/ ToggleFlash

\* the shutter and the timers, with the outcomes of the pixel read, the random values
\* and the clock values tried
CaptureNext(frames, pixelReads, randoms, times) ==
  \/ \E frame \in frames, ok \in pixelReads,
        pf \in 1..(MaxTimers + 1), pc \in 1..(MaxTimers + 1) :
       ShutterClick(frame, ok, pf, pc)
  \/ ShutterMouseDown
  \/ FlashTimeout
  \/ \E r \in randoms, now \in times : CaptureTimeout(r, now)
  \/ EjectTimeout

\* the camera in full, with the pickup and the selection
NextCamera ==
  \/ ControlsNext(TintChoices)
  \/ CaptureNext({ NoFrame } \cup OneFrame, BOOLEAN, {50}, {1000})
  \/ PickupNext({<< 500, 300 >>}, {"a"}, {50})
  \/ \E id \in Ids : DeleteClick(id)
  \/ BackgroundMouseDown

SpecCamera == Init /\ [][NextCamera]_vars

\* the shutter with the flash off, on the frames tried, and the two timers of a
\* capture, with the random values and the clock values tried
PrintsNext(frames, randoms, times) ==
  \/ StartCameraResolved
  \/ \E frame \in frames, pc \in 1..(MaxTimers + 1) : ShutterClick(frame, TRUE, 1, pc)
  \/ ShutterMouseDown
  \/ \E r \in randoms, now \in times : CaptureTimeout(r, now)
  \/ EjectTimeout

\* the wall with two items: selection, gestures and deletion
NextWall ==
  \/ PrintsNext(OneFrame, {50}, {1000})
  \/ PickupNext({<< 120, 50 >>}, Ids, {50})
  \/ WallNext({<< 120, 145 >>}, WallMovePoints)

SpecWall == Init /\ [][NextWall]_vars

\* the wall with one item and a range of pointer positions and random values
NextGesture ==
  \/ PrintsNext(OneFrame, {50}, {1000})
  \/ PickupNext(PickupPoints, {"a"}, RandomSamples)
  \/ WallNext(DownPoints, MovePoints)

SpecGesture == Init /\ [][NextGesture]_vars

\* the print slot and the store: captures of differing prints and their pickup
NextPickup ==
  \/ PrintsNext(OneFrame, RandomSamples \ {90}, Times)
  \/ PickupNext({<< 500, 300 >>}, Ids, RandomSamples \ {50})
  \/ BackgroundMouseDown
  \/ \E id \in Ids : handleMouseDown(id, 500, 300)

SpecPickup == Init /\ [][NextPickup]_vars

\* the wall with one item that is selected and rotated about its centre
NextRotate ==
  \/ PrintsNext(OneFrame, {50}, {1000})
  \/ PickupNext(PickupPoints, {"a"}, {50})
  \/ \E id \in Ids : handleMouseDown(id, 120, 145)
  \/ \E id \in Ids : handleRotateStart(id)
  \/ \E pt \in RotatePoints : handleMouseMove(pt[1], pt[2])
  \/ handleMouseUp

SpecRotate == Init /\ [][NextRotate]_vars

\* the print slot: captures that differ in tint, frame colour and timestamp, delivered
\* onto an empty or an occupied slot, and their pickup
NextSlot ==
  \/ PrintsNext(LiveFrames, RandomSamples \ {90}, Times)
  \/ \E idx \in TintChoices : SelectTint(idx)
  \/ PickupNext({<< 500, 300 >>}, {"a"}, {50})

SpecSlot == Init /\ [][NextSlot]_vars

\* export: prints of frames with and without pixels, picked up, selected by a
\* mouse-down on their body (the gesture it starts is left open) and saved
NextExport ==
  \/ PrintsNext({ NoFrame } \cup OneFrame, {50}, {1000})
  \/ PickupNext({<< 500, 300 >>}, Ids, {50})
  \/ \E id \in Ids : handleMouseDown(id, 500, 300)
  \/ \E id \in Ids : DeleteClick(id)
  \/ \E id \in Ids : savePhoto(id)
  \/ \E k \in 1..MaxExports : ImageOnLoad(k)
  \/ \E k \in 1..MaxExports : ImageOnError(k)

SpecExport == Init /\ [][NextExport]_vars

\* the stylization pipeline on every profile and flash setting, and the pickup that
\* frees the slot for the next capture
NextPipeline ==
  \/ StartCameraResolved
  \/ \E idx \in AllTints : SelectTint(idx)
  \/ ToggleFlash
  \/ \E frame \in OneFrame, ok \in BOOLEAN,
        pf \in 1..(MaxTimers + 1), pc \in 1..(MaxTimers + 1) :
       ShutterClick(frame, ok, pf, pc)
  \/ FlashTimeout
  \/ CaptureTimeout(50, 1000)
  \/ EjectTimeout

SpecPipeline == Init /\ [][NextPipeline]_vars

\* the ejection: captures, their pickup and the fold toggle, with every pending timer
\* firing in the end (setTimeout callbacks are run by the event loop once due)
NextEject ==
  \/ PrintsNext(LiveFrames, {50}, Times)
  \/ PickupNext({<< 500, 300 >>}, Ids, {0, 50})
  \/ FoldToggle

SpecEject ==
  /\ Init
  /\ [][NextEject]_vars
  /\ WF_vars(\E now \in Times : CaptureTimeout(50, now))
  /\ WF_vars(EjectTimeout)

\* the fold state: captures of two tints, with and without a frame, folds and
\* unfolds by the user, and a pickup
NextFold ==
  \/ PrintsNext(Frames, {50}, {1000})
  \/ \E idx \in TintChoices : SelectTint(idx)
  \/ FoldToggle
  \/ TopBarClick
  \/ PickupNext({<< 500, 300 >>}, {"a"}, {50})

SpecFold == Init /\ [][NextFold]_vars

\* the grain of the neutral and the blue profile on the pixels and the noise tried
NextGrain ==
  \/ StartCameraResolved
  \/ \E idx \in TintChoices : SelectTint(idx)
  \/ \E frame \in OneFrame, sample \in SamplePixels, r \in NoiseSamples,
        pc \in 1..(MaxTimers + 1) :
       ShutterClickOn(frame, sample, r, TRUE, 1, pc)
  \/ CaptureTimeout(50, 1000)
  \/ EjectTimeout

SpecGrain == Init /\ [][NextGrain]_vars

(***************************************************************************)
(* Properties                                                              *)
(***************************************************************************)

\* the positions a timer of an accepted press can take
TimerPositions == 1..(MaxTimers + 2)

\* some pointerdown on the print, and some call of handleDragFromCamera
SomePickupPoints == PickupPoints \cup {<< 500, 300 >>}
SomeDownPoints == DownPoints \cup {<< 120, 145 >>, << 500, 300 >>}

\* the items of the store that are mid-gesture
NonIdle == { id \in IdsOf(photos) : interactionMode[id] # "none" }

\* C1: after the delete of the item whose id is the selected id, the selected id is
\* none.
C1_DeleteClearsSelection ==
  [][ \A id \in Ids :
        (DeleteClick(id) /\ selectedPhotoId = id) => selectedPhotoId' = NoId ]_vars

\* canCapture() of the capture orchestrator: the frame source is open, no capture is
\* in flight, no print is ejecting, and the camera is not folded
canCapture ==
  /\ stream = "open"
  /\ ~isPrinting
  /\ ~isFolded
  /\ \A i \in 1..Len(timers) : timers[i].kind # "capture"

\* the deferred deliveries pending
Deliveries(ts) == SelectSeq(ts, LAMBDA t : t.kind = "capture")

\* C2: a shutter press made while canCapture() is false writes nothing to the print
\* slot and defers no delivery that would.
C2_RejectedPressNeverWrites ==
  [][ ( /\ ~canCapture
        /\ \E frame \in Frames, ok \in BOOLEAN, pf \in TimerPositions, pc \in TimerPositions :
             ShutterClick(frame, ok, pf, pc) )
      => /\ currentPrint' = currentPrint
         /\ Deliveries(timers') = Deliveries(timers) ]_vars

\* C3: a pickup leaves the print slot empty, and a pickup on an empty slot leaves the
\* store, the selected id and the slot as they were.
C3_PickupClearsSlot ==
  [][ \A pt \in SomePickupPoints, newId \in Ids, r \in RandomSamples :
        ( PrintPickup(pt[1], pt[2], newId, r)
          \/ PickupOnEmptySlot(pt[1], pt[2], newId, r) )
        => /\ currentPrint' = << >>
           /\ currentPrint = << >> => UNCHANGED << photos, selectedPhotoId, currentPrint >>
    ]_vars

\* a pickup has happened, an item is selected and the slot is empty: the next pickup
\* call is one on an empty slot
C3_Witness ==
  /\ Len(photos) >= 1
  /\ currentPrint = << >>
  /\ selectedPhotoId \in IdsOf(photos)

\* C4: a pickup at (px, py) from a non-empty slot appends exactly one item, at
\* (px - 120, py - 50), rotated by -5..5 degrees, at scale 1, with the image, the
\* timestamp and the frame colour of the print; the items before it are unchanged.
C4_PickupAppendsItem ==
  [][ \A pt \in SomePickupPoints, newId \in Ids, r \in RandomSamples :
        PrintPickup(pt[1], pt[2], newId, r)
        => /\ Len(photos') = Len(photos) + 1
           /\ SubSeq(photos', 1, Len(photos)) = photos
           /\ LET new == photos'[Len(photos')]
              IN  /\ new.id = newId
                  /\ new.x = pt[1] - 120
                  /\ new.y = pt[2] - 50
                  /\ new.rotation \in (0 - 5)..5
                  /\ new.scale = 150 * 150
                  /\ new.url = currentPrint[1].url
                  /\ new.timestamp = currentPrint[1].timestamp
                  /\ new.borderColor = currentPrint[1].borderColor ]_vars

\* a second item picked up at (500, 300): it lies at (380, 250), unrotated by less
\* than 5 degrees, and the item before it is still there
C4_Witness ==
  /\ Len(photos) = 2
  /\ photos[2].x = 380
  /\ photos[2].y = 250
  /\ photos[2].rotation = 4
  /\ photos[2].timestamp # photos[1].timestamp
  /\ currentPrint = << >>

\* C5: after the pointer-down that performs a pickup, of a mouse or of a touch, the
\* selected id is the id of the new item.
C5_PickupSelectsNewItem ==
  [][ \A pt \in SomePickupPoints, newId \in Ids, r \in RandomSamples :
        PrintPickup(pt[1], pt[2], newId, r) => selectedPhotoId' = newId ]_vars

\* C6: at most one item of the store is selected, and a mouse-down on the body of an
\* item leaves that item selected and no other.
C6_AtMostOneSelected ==
  /\ [](Cardinality({ i \in 1..Len(photos) : IsSelected(photos[i].id) }) <= 1)
  /\ [][ \A id \in Ids, pt \in SomeDownPoints :
           handleMouseDown(id, pt[1], pt[2])
           => \A i \in 1..Len(photos') : (selectedPhotoId' = photos'[i].id) <=> photos'[i].id = id
      ]_vars

\* two items, the second selected by a mouse-down on its body
C6_Witness ==
  /\ Len(photos) = 2
  /\ selectedPhotoId = photos[2].id
  /\ interactionMode[photos[2].id] = "drag"
  /\ interactionMode[photos[1].id] = "none"

\* C7: at most one item is mid-gesture.
C7_SingleActiveGesture == Cardinality(NonIdle) <= 1

\* C8: the scale of every item of the store is within [0.3, 3].
C8_ScaleInRange ==
  \A i \in 1..Len(photos) : photos[i].scale \in ScaleMin..ScaleMax

\* an item being resized whose scale is 3: the pointer is 450px or more from its centre
C8_Witness ==
  \E i \in 1..Len(photos) :
    /\ interactionMode[photos[i].id] = "resize"
    /\ photos[i].scale = 9 * 150 * 150

C10_DragPosition ==
  [][ /\ \A id \in Ids, pt \in SomeDownPoints :
           handleMouseDown(id, pt[1], pt[2])
           => dragOffset'[id] = << pt[1] - PhotoOf(photos, id).x,
                                   pt[2] - PhotoOf(photos, id).y >>
      /\ \A pt \in MovePoints :
           handleMouseMove(pt[1], pt[2])
           => /\ dragOffset' = dragOffset
              /\ interactionMode' = interactionMode
              /\ \A i \in 1..Len(photos) :
                   interactionMode[photos[i].id] = "drag"
                   => /\ photos'[i].x = pt[1] - dragOffset[photos[i].id][1]
                      /\ photos'[i].y = pt[2] - dragOffset[photos[i].id][2] ]_vars

\* the item grabbed at (50, 50) while at (0, 0) and moved to (200, 200): it is at
\* (150, 150)
C10_Witness ==
  \E i \in 1..Len(photos) :
    /\ interactionMode[photos[i].id] = "drag"
    /\ dragOffset[photos[i].id] = << 50, 50 >>
    /\ photos[i].x = 150
    /\ photos[i].y = 150

C12_MouseUpEndsGesture ==
  [][ handleMouseUp
      => /\ \A id \in IdsOf(photos) : interactionMode'[id] = "none"
         /\ photos' = photos
         /\ selectedPhotoId' = selectedPhotoId ]_vars

\* an item released after it was resized: it is idle, still selected, and keeps the
\* scale of the gesture
C12_Witness ==
  \E i \in 1..Len(photos) :
    /\ interactionMode[photos[i].id] = "none"
    /\ photos[i].scale # 150 * 150
    /\ selectedPhotoId = photos[i].id
    /\ Len(photos) = 2

\* C13: a shutter press on a frame of width or height 0 defers no delivery to the
\* capture handler and leaves the print slot as it was.
C13_ZeroFrameAborts ==
  [][ \A frame \in Frames, ok \in BOOLEAN, pf \in TimerPositions, pc \in TimerPositions :
        (Min(frame[1], frame[2]) = 0 /\ ShutterClick(frame, ok, pf, pc))
        => /\ timers' = timers
           /\ slotVars' = slotVars ]_vars

\* C14: no image of a frame whose pixel read failed in the grain stage is delivered:
\* none is pending for the capture handler, and none is in the print slot, ejecting
\* or not.
C14_PixelReadFailureAborts ==
  /\ \A i \in 1..Len(timers) :
       (timers[i].kind = "capture" /\ timers[i].url.size > 0) => timers[i].url.grain
  /\ (currentPrint # << >> /\ currentPrint[1].url.size > 0) => currentPrint[1].url.grain

\* the 1.5 s timers pending
Ejects(ts) == SelectSeq(ts, LAMBDA t : t.kind = "eject")

\* C15: the print slot holds at most one print; a capture delivered onto an occupied
\* slot replaces the print whole (image, timestamp and frame colour) and leaves the
\* store as it was; an item is only ever made of the print that is in the slot at its
\* pickup, so a replaced print never becomes an item.
C15_CaptureOverwritesSlot ==
  /\ [](Len(currentPrint) <= 1)
  /\ [][ \A r \in RandomSamples, now \in Times :
           CaptureTimeout(r, now)
           => /\ currentPrint' = << [ url |-> timers[1].url,
                                      timestamp |-> now,
                                      borderColor |-> PASTEL_COLORS[(r \div 10) + 1] ] >>
              /\ photos' = photos ]_vars
  /\ [][ photos' # photos
         => /\ currentPrint # << >>
            /\ currentPrint' = << >>
            /\ Len(photos') = Len(photos) + 1
            /\ photos'[Len(photos')].url = currentPrint[1].url
            /\ photos'[Len(photos')].timestamp = currentPrint[1].timestamp
            /\ photos'[Len(photos')].borderColor = currentPrint[1].borderColor ]_vars

\* two captures have been delivered and none was picked up: the slot holds the one
\* print of the second delivery
C15_Witness ==
  /\ Len(Ejects(timers)) = 2
  /\ usedIds = {}
  /\ photos = << >>
  /\ currentPrint # << >>
  /\ currentPrint[1].timestamp = 2000
  /\ currentPrint[1].url.tint = "blue"

\* some pickup of the print in the slot, and some delivery of a capture
SomePickup ==
  \E pt \in SomePickupPoints, newId \in Ids, r \in RandomSamples :
    PrintPickup(pt[1], pt[2], newId, r)
SomeDelivery == \E r \in RandomSamples, now \in Times : CaptureTimeout(r, now)

\* C16: the 1.5 s eject timer clears the ejecting flag and leaves the print in the
\* slot; a print leaves the slot only by its pickup or by the delivery of the next
\* capture, and while it is in the slot the pickup can take it (as long as an id is
\* left to explore).
C16_EjectKeepsPrint ==
  /\ [][ EjectTimeout
         => /\ isPrinting' = FALSE
            /\ currentPrint' = currentPrint
            /\ photos' = photos
            /\ selectedPhotoId' = selectedPhotoId ]_vars
  /\ [][ (currentPrint # << >> /\ currentPrint' # currentPrint)
         => (SomePickup \/ SomeDelivery) ]_vars
  /\ []((currentPrint # << >> /\ usedIds # Ids) => ENABLED SomePickup)

\* the eject timer has fired and no timer is left: the print is still in the slot
C16_Witness ==
  /\ currentPrint # << >>
  /\ ~isPrinting
  /\ timers = << >>

\* C17: a mouse-down on the background sets the selected id to none; a mouse-down on
\* an item's body leaves that item selected, and a mouse-down on the rotate handle or
\* the resize handle of an item leaves the selected id as it was, the id of that item.
C17_BackgroundClearsSelection ==
  /\ [][ BackgroundMouseDown => selectedPhotoId' = NoId ]_vars
  /\ [][ \A id \in Ids :
           /\ (\E pt \in SomeDownPoints : handleMouseDown(id, pt[1], pt[2]))
                => selectedPhotoId' = id
           /\ (handleRotateStart(id) \/ handleResizeStart(id))
                => (selectedPhotoId' = id /\ selectedPhotoId = id) ]_vars

\* an item resized from its handle and still selected, beside a second item
C17_Witness ==
  \E i \in 1..Len(photos) :
    /\ Len(photos) = 2
    /\ interactionMode[photos[i].id] = "resize"
    /\ selectedPhotoId = photos[i].id
    /\ photos[i].scale # 150 * 150

\* C18: no two items of the store have the same id, and an id that an item had is
\* never given to a later item, whether or not that item was deleted.
C18_UniqueIds ==
  /\ [](\A i \in 1..Len(photos), j \in 1..Len(photos) :
          photos[i].id = photos[j].id => i = j)
  /\ [](IdsOf(photos) \subseteq usedIds)
  /\ [][ /\ usedIds \subseteq usedIds'
         /\ \A id \in usedIds : id \notin IdsOf(photos) => id \notin IdsOf(photos') ]_vars

\* every id has been given out and one of the items was deleted
C18_Witness ==
  /\ usedIds = Ids
  /\ Len(photos) = 1
  /\ currentPrint # << >>

\* some event of a shutter press: the mousedown of a press with the pointer, or the
\* click of a press with the pointer or from the keyboard
SomePress ==
  \/ ShutterMouseDown
  \/ \E frame \in Frames, ok \in BOOLEAN, pf \in TimerPositions, pc \in TimerPositions :
       ShutterClick(frame, ok, pf, pc)

\* C19: a shutter press, the delivery of a capture, the flash timer and the eject timer
\* each leave the store (every item's fields and the order), the selected id and every
\* item's gesture state as they were.
C19_CaptureLeavesWallAlone ==
  [][ (SomePress \/ SomeDelivery \/ FlashTimeout \/ EjectTimeout)
      => UNCHANGED << photos, selectedPhotoId, interactionMode >> ]_vars

\* C20: when the image of an export fails to decode, no file is saved for that call,
\* then or later, and the store, the selected id and the print slot stay as they were;
\* every file saved is that of an image that decoded.
C20_DecodeFailureSavesNothing ==
  /\ [][ \A k \in 1..MaxExports :
           ImageOnError(k)
           => /\ Downloads' = Downloads
              /\ exports'[k].state = "broken"
              /\ UNCHANGED << photos, selectedPhotoId, currentPrint >> ]_vars
  /\ [][ \A k \in 1..Len(exports) :
           exports[k].state = "broken" => exports'[k].state = "broken" ]_vars
  /\ [](\A k \in 1..Len(exports) : exports[k].state = "saved" => exports[k].url.size > 0)

\* the export of an item whose image is the empty data URL has failed to decode, and
\* the export of another item was saved
C20_Witness ==
  /\ Len(exports) = 2
  /\ exports[1].state = "broken"
  /\ exports[1].url.size = 0
  /\ exports[2].state = "saved"
  /\ Len(photos) = 2

\* C21: the call of savePhoto saves no file and leaves the store alone; its image load
\* completes later, after any other events, and then saves exactly one file, named
\* retrosnap-<id>.jpg after the item the call was made on, and leaves the store alone;
\* an export that has saved its file saves no other.
C21_ExportDeliversOnce ==
  /\ [][ \A id \in Ids :
           savePhoto(id)
           => /\ Downloads' = Downloads
              /\ Len(exports') = Len(exports) + 1
              /\ exports'[Len(exports')].state = "loading"
              /\ exports'[Len(exports')].name = << "retrosnap-", id, ".jpg" >>
              /\ photos' = photos ]_vars
  /\ [][ \A k \in 1..MaxExports :
           ImageOnLoad(k)
           => /\ Len(Downloads') = Len(Downloads) + 1
              /\ exports[k].state = "loading"
              /\ exports'[k].state = "saved"
              /\ photos' = photos ]_vars
  /\ [][ \A k \in 1..Len(exports) :
           /\ exports'[k].name = exports[k].name
           /\ exports[k].state = "saved" => exports'[k].state = "saved" ]_vars

\* the first export has saved its file; the second was called on another item, which
\* was deleted while its image is still loading
C21_Witness ==
  /\ Len(exports) = 2
  /\ exports[1].state = "saved"
  /\ exports[2].state = "loading"
  /\ exports[2].name # exports[1].name
  /\ exports[2].name[2] \notin IdsOf(photos)
  /\ exports[2].url.size > 0

\* the images of frames with pixels that the pipeline has produced and that are still
\* pending for the capture handler, in the print slot or on the wall
Captured ==
  { timers[i].url : i \in { j \in 1..Len(timers) :
                              timers[j].kind = "capture" /\ timers[j].url.size > 0 } }
  \cup { currentPrint[i].url : i \in { j \in 1..Len(currentPrint) :
                                         currentPrint[j].url.size > 0 } }
  \cup { photos[i].url : i \in { j \in 1..Len(photos) : photos[j].url.size > 0 } }

\* the stages in their fixed order, the tint overlay in its blue form (two blends) and
\* in its other form (one blend)
StageOrder ==
  << "crop", "mirror", "grade", "flashCast", "tintScreen", "tintScreen", "tintOverlay",
     "bloom", "vignette", "blueCast", "grain", "encode" >>

\* C22: every image whose pixel read succeeded was made by the stages crop, mirror,
\* base grade, flash cast, tint overlay, bloom, vignette, secondary blue cast, grain,
\* encode in this order, of which the flash cast ran only with the flash on and the blue
\* profile, the bloom only with the flash off, the blue cast only for the blue profile,
\* the tint overlay as two blends for blue, one blend for red, emerald and amber and
\* none for neutral, and every other stage ran.
C22_StageOrder ==
  \A u \in Captured :
    u.grain
    => LET blue == u.tint = "blue"
           Runs(st) ==
             CASE st = "flashCast" -> u.flash /\ blue
               [] st = "tintScreen" -> blue
               [] st = "tintOverlay" -> u.tint \in { "red", "emerald", "amber" }
               [] st = "bloom" -> ~u.flash
               [] st = "blueCast" -> blue
               [] OTHER -> TRUE
       IN  u.stages = SelectSeq(StageOrder, Runs)

\* an image of the blue profile with the flash on waits in the slot while one of the
\* neutral profile with the flash off is on the wall
C22_Witness ==
  /\ \E u \in Captured : u.tint = "neutral" /\ ~u.flash /\ u.grain /\ Len(u.stages) = 7
  /\ currentPrint # << >>
  /\ currentPrint[1].url.tint = "blue"
  /\ currentPrint[1].url.flash
  /\ currentPrint[1].url.grain
  /\ Len(currentPrint[1].url.stages) = 10

\* C28: the base grade of an image depends only on whether its profile is blue and on
\* the flash setting: two images have the same grade exactly when they agree on both,
\* so the grades are four, and neutral, red, emerald and amber share theirs.
C28_GradeByBlueAndFlash ==
  \A u \in Captured, v \in Captured :
    (u.filter = v.filter)
      <=> (((u.tint = "blue") <=> (v.tint = "blue")) /\ (u.flash <=> v.flash))

\* an amber image in the slot and a red image on the wall, both taken with the flash
\* on
C28_Witness ==
  /\ currentPrint # << >>
  /\ currentPrint[1].url.tint = "amber"
  /\ currentPrint[1].url.flash
  /\ \E u \in Captured : u.tint = "red" /\ u.flash

\* C23: once a print has been picked up, the ejecting flag set by a later delivery is
\* cleared only by a pickup or by the 1.5 s timer that this delivery started: the timer
\* of the earlier delivery, still pending when the new print arrives, never clears it.
C23_CaptureReplacesEjectTimer ==
  [][ (photos # << >> /\ isPrinting /\ ~isPrinting')
      => \/ SomePickup
         \/ (EjectTimeout /\ Len(Ejects(timers)) = 1) ]_vars

\* Photo with the same zIndex whether selected or not
ZIndex_Flat(id) == 1

\* style.zIndex of the Photo of item id
ZIndex(id) == IF IsSelected(id) THEN 50 ELSE 1

\* the Photo of the i-th item is painted over that of the j-th: the higher zIndex wins
\* and, with equal zIndex, the later element of photos.map
PaintedOver(i, j) ==
  \/ ZIndex(photos[i].id) > ZIndex(photos[j].id)
  \/ (ZIndex(photos[i].id) = ZIndex(photos[j].id) /\ i > j)

\* the ids of the items on the wall from the bottom one to the top one
RenderOrder ==
  [r \in 1..Len(photos) |->
     photos[CHOOSE i \in 1..Len(photos) :
              Cardinality({ j \in 1..Len(photos) : PaintedOver(i, j) }) = r - 1].id]

\* a window mousemove at one of the pointer positions tried on the wall
SomeMove == \E pt \in WallMovePoints : handleMouseMove(pt[1], pt[2])

\* C24: an item has its window listeners exactly while its mode is not 'none': a
\* pointer move leaves every item in mode 'none' as it was and changes nothing when
\* all are, a pointer up leaves no item with a listener, and an id that is not in the
\* store (deleted, mid-gesture or not) has none.
C24_ListenersWhileNonIdle ==
  /\ [](\A id \in Ids : id \notin IdsOf(photos) => interactionMode[id] = "none")
  /\ [][ SomeMove
         => /\ Len(photos') = Len(photos)
            /\ \A i \in 1..Len(photos) :
                 interactionMode[photos[i].id] = "none" => photos'[i] = photos[i]
            /\ (NonIdle = {} => UNCHANGED vars) ]_vars
  /\ [][ handleMouseUp => NonIdle' = {} ]_vars
  /\ [][ \A id \in Ids : DeleteClick(id) => interactionMode'[id] = "none" ]_vars

\* the first item was dragged and released, the second is being dragged and has moved
\* while the first stayed where it was released
C24_Witness ==
  /\ Len(photos) = 2
  /\ interactionMode[photos[1].id] = "none"
  /\ photos[1].x = 150
  /\ interactionMode[photos[2].id] = "drag"
  /\ photos[2].x = 150
  /\ IdsOf(photos) = Ids

\* the four fields an item is created with
Identity(p) ==
  [ id |-> p.id, url |-> p.url, timestamp |-> p.timestamp, borderColor |-> p.borderColor ]
Identities(ps) == [i \in 1..Len(ps) |-> Identity(ps[i])]

\* C25: the id, image, creation timestamp and frame colour of an item never change:
\* every step leaves these four fields of every item as they were, the store changing
\* only by one item appended (pickup) or one item removed (delete).
C25_IdentityImmutable ==
  [][ \/ Identities(photos') = Identities(photos)
      \/ /\ Len(photos') = Len(photos) + 1
         /\ SubSeq(Identities(photos'), 1, Len(photos)) = Identities(photos)
      \/ /\ Len(photos') = Len(photos) - 1
         /\ \E k \in 1..Len(photos) :
              Identities(photos')
                = SubSeq(Identities(photos), 1, k - 1)
                    \o SubSeq(Identities(photos), k + 1, Len(photos)) ]_vars

\* two items made of prints of 1000 with the palette's sixth colour: one dragged,
\* turned a quarter and selected, the other left where it was picked up
C25_Witness ==
  /\ Len(photos) = 2
  /\ photos[1].x = 150
  /\ photos[1].rotation = 90
  /\ photos[2].x = 0
  /\ selectedPhotoId = photos[1].id
  /\ \A i \in 1..2 :
       /\ photos[i].timestamp = 1000
       /\ photos[i].borderColor = PASTEL_COLORS[6]
       /\ photos[i].url.size = 720

\* the store ps without its k-th item
Without(ps, k) == SubSeq(ps, 1, k - 1) \o SubSeq(ps, k + 1, Len(ps))

\* C26: deletePhoto of an id in the store gives the store without that one item, the
\* others with all their fields and in their order, whether the item is selected or
\* mid-gesture or neither; deletePhoto of an id that is not in the store gives the
\* store as it is; and the delete click puts exactly that result in the store.
C26_DeleteRemovesExactlyOne ==
  /\ [](\A id \in Ids \cup { NoId } :
          IF id \in IdsOf(photos)
            THEN \E k \in 1..Len(photos) :
                   /\ photos[k].id = id
                   /\ deletePhoto(photos, id) = Without(photos, k)
          ELSE deletePhoto(photos, id) = photos)
  /\ [][ \A id \in Ids :
           DeleteClick(id)
           => \E k \in 1..Len(photos) :
                /\ photos[k].id = id
                /\ photos' = Without(photos, k)
                /\ \A other \in Ids \ { id } :
                     interactionMode'[other] = interactionMode[other] ]_vars

\* the selected one of two items was deleted and the other, dragged before the delete
\* and still mid-drag, is in the store where it was
C26_Witness ==
  /\ Len(photos) = 1
  /\ usedIds = Ids
  /\ selectedPhotoId \in Ids \ IdsOf(photos)
  /\ photos[1].x = 150
  /\ interactionMode[photos[1].id] = "drag"

\* the ids of the store ps in its order
IdSeq(ps) == [i \in 1..Len(ps) |-> ps[i].id]

\* C27: the store keeps insertion order: a pickup appends its item at the end and no
\* other step reorders the items that remain (an update keeps all, a delete drops
\* one); the render order is the store's order with the selected item, if it is in
\* the store, moved to the top.
C27_InsertionOrderSelectedOnTop ==
  /\ [](RenderOrder = SelectSeq(IdSeq(photos), LAMBDA id : id # selectedPhotoId)
                        \o SelectSeq(IdSeq(photos), LAMBDA id : id = selectedPhotoId))
  /\ [][ SomePickup
         => /\ Len(photos') = Len(photos) + 1
            /\ SubSeq(IdSeq(photos'), 1, Len(photos)) = IdSeq(photos)
            /\ photos'[Len(photos')].id \notin IdsOf(photos) ]_vars
  /\ [][ ~SomePickup
         => \/ IdSeq(photos') = IdSeq(photos)
            \/ \E k \in 1..Len(photos) : IdSeq(photos') = Without(IdSeq(photos), k) ]_vars

\* the older of two items is selected and painted over the newer one
C27_Witness ==
  /\ Len(photos) = 2
  /\ selectedPhotoId = photos[1].id
  /\ RenderOrder = << photos[2].id, photos[1].id >>
  /\ photos[1].x = 150

\* C30: the flash pulse starts only on an accepted press with the flash enabled; the
\* 150 ms timer clears flashActive and nothing else, the 1.5 s timer clears the
\* ejecting flag and nothing else: neither changes the print in the slot, the other
\* flag, the fold state, the selected tint or the flash setting.
C30_TimersClearOwnFlagOnly ==
  /\ [][ (~flashActive /\ flashActive')
         => (SomePress /\ isFlashEnabled /\ ~isPrinting /\ ~isFolded) ]_vars
  /\ [][ FlashTimeout
         => /\ ~flashActive'
            /\ UNCHANGED << currentPrint, isPrinting, isFolded, selectedTintIndex,
                            isFlashEnabled >> ]_vars
  /\ [][ EjectTimeout
         => /\ ~isPrinting'
            /\ UNCHANGED << currentPrint, flashActive, isFolded, selectedTintIndex,
                            isFlashEnabled >> ]_vars

\* a value in hundredths kept within the channel range
ClampHundredths(v) == Max(0, Min(25500, v))
Distance(a, b) == IF a >= b THEN a - b ELSE b - a

\* C29: on an accepted press whose pixel read succeeds, the grain adds to the pixel one
\* value n = (Math.random() - 0.5) * grain with |n| <= grain / 2, grain being 14 for
\* the blue profile and 22 otherwise: each of R, G and B is the integer of 0..255
\* nearest to its input plus n kept within 0..255, so it differs from its input by at
\* most grain / 2 and never wraps around, and alpha is as it was.
C29_GrainBoundedAndClamped ==
  [][ \A frame \in OneFrame, sample \in SamplePixels, r \in NoiseSamples,
         pc \in TimerPositions :
        (ShutterClickOn(frame, sample, r, TRUE, 1, pc) /\ ~isPrinting /\ ~isFolded)
        => LET post == timers'[pc].url.pixel
               grain == IF timers'[pc].url.tint = "blue" THEN 14 ELSE 22
               n == ((r - 50) * grain)
           IN  /\ timers'[pc].kind = "capture"
               /\ 2 * Distance(n, 0) <= 100 * grain
               /\ post[4] = sample[4]
               /\ \A c \in 1..3 :
                    /\ post[c] \in 0..255
                    /\ Distance(100 * post[c], ClampHundredths(100 * sample[c] + n)) <= 50
                    /\ 2 * Distance(post[c], sample[c]) <= grain ]_vars

\* the print in the slot has two channels clamped at 255 by the neutral grain
\* (n = 10.78 on 250, 255, 7), and a pending image of the blue profile has one clamped
\* at 0 and one tie rounded to the even integer (n = -3.5 on 0, 3, 128)
C29_Witness ==
  /\ currentPrint # << >>
  /\ currentPrint[1].url.pixel = << 255, 255, 18, 255 >>
  /\ currentPrint[1].url.tint = "neutral"
  /\ \E u \in Captured : u.tint = "blue" /\ u.pixel = << 0, 0, 124, 255 >>

\* C31: an item enters the rotate or the resize mode only while its id is the selected
\* id, and the step that starts the gesture leaves the selected id as it was.
C31_HandlesOnSelectedOnly ==
  [][ \A id \in Ids :
        (/\ interactionMode'[id] \in { "rotate", "resize" }
         /\ interactionMode'[id] # interactionMode[id])
        => /\ id \in IdsOf(photos)
           /\ selectedPhotoId = id
           /\ selectedPhotoId' = id ]_vars

\* the selected one of two items is rotating, turned a quarter, and the other is idle
C31_Witness ==
  \E i \in 1..Len(photos) :
    /\ Len(photos) = 2
    /\ interactionMode[photos[i].id] = "rotate"
    /\ selectedPhotoId = photos[i].id
    /\ photos[i].rotation = 90
    /\ \A j \in 1..Len(photos) : j # i => interactionMode[photos[j].id] = "none"

\* C32: a pointer move changes, of an item that is dragged, the position only; of an
\* item that is rotated, the rotation only; of an item that is resized, the scale
\* only; and no field of an item in mode 'none'. Every other field keeps its value.
C32_GestureWritesOwnField ==
  [][ SomeMove
      => /\ Len(photos') = Len(photos)
         /\ \A i \in 1..Len(photos) :
              LET p == photos[i]
                  q == photos'[i]
                  mode == interactionMode[p.id]
              IN  /\ mode = "none" => q = p
                  /\ mode = "drag" => q = [p EXCEPT !.x = q.x, !.y = q.y]
                  /\ mode = "rotate" => q = [p EXCEPT !.rotation = q.rotation]
                  /\ mode = "resize" => q = [p EXCEPT !.scale = q.scale] ]_vars

\* one of two items was turned a quarter, dragged and is being resized; the other is
\* as its pickup made it
C32_Witness ==
  \E i \in 1..Len(photos), j \in 1..Len(photos) :
    /\ Len(photos) = 2
    /\ i # j
    /\ interactionMode[photos[i].id] = "resize"
    /\ photos[i].x = 150
    /\ photos[i].scale # Scale1
    /\ photos[i].rotation = 90
    /\ photos[j].x = 0
    /\ photos[j].scale = Scale1
    /\ photos[j].rotation = RandomRotation(50)

\* C33: the selected id changes only by a mouse-down on an item's body, to that item's
\* id; by a mouse-down that reaches the root div, to none; and by a pickup, to the id
\* of the new item. Pointer moves, pointer ups, the start of a rotation or a resize,
\* deliveries, timers and exports leave it as it was.
C33_SelectionChangesOnThreeEvents ==
  [][ selectedPhotoId' # selectedPhotoId
      => \/ \E id \in Ids, pt \in SomeDownPoints :
              handleMouseDown(id, pt[1], pt[2]) /\ selectedPhotoId' = id
         \/ (BackgroundMouseDown /\ selectedPhotoId' = NoId)
         \/ (SomePress /\ selectedPhotoId' = NoId)
         \/ (SomePickup /\ selectedPhotoId' = photos'[Len(photos')].id) ]_vars

\* C34: whenever the ejecting flag is set the print slot holds a print: the delivery
\* of a capture sets the flag and fills the slot, the pickup clears the flag and
\* empties the slot, and the eject timer clears the flag and leaves the slot as it is.
C34_EjectingImpliesPrint ==
  /\ [](isPrinting => currentPrint # << >>)
  /\ [][ SomeDelivery => (isPrinting' /\ currentPrint' # << >>) ]_vars
  /\ [][ SomePickup => (~isPrinting' /\ currentPrint' = << >>) ]_vars
  /\ [][ EjectTimeout => (~isPrinting' /\ currentPrint' = currentPrint) ]_vars

\* a print was picked up while it was ejecting (its timer is still pending) and the
\* next print is in the slot, ejecting
C34_Witness ==
  /\ isPrinting
  /\ currentPrint # << >>
  /\ photos # << >>
  /\ Len(Ejects(timers)) = 2

\* C35: at every delivery of a capture the ejecting flag is not yet set: no capture is
\* written to the slot while the print before it is ejecting, so of two presses the
\* second is accepted only after the first one's image was written.
C35_NoDeliveryWhileEjecting ==
  [][ SomeDelivery => ~isPrinting ]_vars

\* C36: the ejecting flag never blocks the capture for good: whenever it is set it is
\* cleared later, pending timers firing in the end, and whenever it is clear with
\* the camera unfolded a press of the shutter is accepted (as long as timers are left
\* to explore): it defers a delivery.
C36_EjectingFlagClears ==
  /\ (isPrinting ~> ~isPrinting)
  /\ []((~isPrinting /\ ~isFolded /\ stream = "open" /\ Len(timers) + 2 <= MaxTimers)
        => ENABLED (/\ \E frame \in LiveFrames, pc \in TimerPositions :
                         ShutterClick(frame, TRUE, 1, pc)
                    /\ Len(Deliveries(timers')) = Len(Deliveries(timers)) + 1))

\* the eject timer has cleared the flag, the print is still in the slot, and a later
\* press was accepted: its delivery is pending
C36_Witness ==
  /\ ~isPrinting
  /\ ~isFolded
  /\ currentPrint # << >>
  /\ Ejects(timers) = << >>
  /\ Len(Deliveries(timers)) = 1

\* C37: every step that sets the ejecting flag, and every step that puts an image in
\* the print slot that differs from the one before, leaves the camera unfolded,
\* whether or not it was folded after the press that took the image.
C37_DeliveryUnfolds ==
  [][ (\/ (~isPrinting /\ isPrinting')
       \/ (currentPrint' # << >> /\ PrintUrl(currentPrint') # PrintUrl(currentPrint)))
      => ~isFolded' ]_vars

\* the camera was folded after an accepted press: it is folded, the flag is clear, the
\* print before is in the slot and the delivery of an image of another tint is pending
C37_Witness ==
  /\ isFolded
  /\ ~isPrinting
  /\ currentPrint # << >>
  /\ Len(Deliveries(timers)) = 1
  /\ Deliveries(timers)[1].url # currentPrint[1].url
  /\ Ejects(timers) = << >>

====
